---- MODULE Spec2Model ----
(***************************************************************************)
(* Archival pipeline of the Soulseek research collector.                   *)
(*                                                                         *)
(* The live store (table searches), the archive catalog (table archives)   *)
(* and the cumulative statistics row (table stats_cumulative, id = 1) are  *)
(* shared by the archival script scripts/archive.py and by the CLI command *)
(* "archive", which calls ResearchClient.archive_month.  Every SQL         *)
(* statement followed by its commit is one atomic step; an archival job is *)
(* a process that walks through these steps.                               *)
(*                                                                         *)
(* Time is counted in days.  The clock is observed every MinAgeDays days,  *)
(* and a calendar month is 28 days long.                                   *)
(***************************************************************************)
EXTENDS Integers, Sequences, FiniteSets, Bags, TLC

\* ---------------------------------------------------------------- bounds
MaxTicks == 6     \* the clock runs from day 0 to day MaxTicks * MinAgeDays
MaxRows == 2      \* rows ever inserted into the live store
MaxRuns == 2      \* archival runs ever started

\* ------------------------------------------------------- program constants
MinAgeDays == 7   \* get_months_to_archive(conn, min_age_days = 7)

NULL == 0 - 1     \* SQL NULL / Python None in an integer column

Times == {k * MinAgeDays : k \in 0..MaxTicks}

\* TO_CHAR(timestamp, 'YYYY-MM'): the calendar month of a timestamp.
MonthOf(t) == t \div 28

Months == {MonthOf(t) : t \in Times}

\* ------------------------------------------------------------ query text
\* A query text is a sequence of characters.
RECURSIVE LTrim(_)
LTrim(s) == IF s # <<>> /\ Head(s) = " " THEN LTrim(Tail(s)) ELSE s

RECURSIVE RTrim(_)
RTrim(s) == IF s # <<>> /\ s[Len(s)] = " " THEN RTrim(SubSeq(s, 1, Len(s) - 1)) ELSE s

\* SQL TRIM(query): strips leading and trailing blanks.
Trim(s) == RTrim(LTrim(s))

LowerChar(c) == CASE c = "R" -> "r" [] c = "J" -> "j" [] OTHER -> c

\* SQL LOWER(query)
Lower(s) == [i \in 1..Len(s) |-> LowerChar(s[i])]

\* LOWER(TRIM(query))
NormalizedQuery(q) == Lower(Trim(q))

\* --------------------------------------------------------------- rows
\* What the collection points observe: (client_id, username, query, day).
\* Day 0 is the first day of month 0, day MinAgeDays is exactly MinAgeDays old
\* at the second look at the clock, day 28 is the first day of month 1.
Observations ==
  { <<"c1", "u1", <<" ", "R">>, 0>>,
    <<"c2", "u1", <<"r">>, MinAgeDays>>,
    <<"c2", "u2", <<"j", " ">>, 28>> }

\* SearchRecord: one row of the table searches (the id column is left out:
\* the table is a bag of rows).
SearchRecord(o) ==
  [client_id |-> o[1], timestamp |-> o[4], username |-> o[2], query |-> o[3]]

\* The rows of a table that a WHERE clause keeps (keep: a set of its rows).
RowsWhere(tbl, keep) == [r \in keep |-> tbl[r]]

\* SELECT ... FROM searches WHERE TO_CHAR(timestamp, 'YYYY-MM') = month
MonthRows(tbl, m) == RowsWhere(tbl, {r \in DOMAIN tbl : MonthOf(r.timestamp) = m})

\* The rows left after DELETE ... WHERE TO_CHAR(timestamp, 'YYYY-MM') = month
OtherRows(tbl, m) == RowsWhere(tbl, {r \in DOMAIN tbl : MonthOf(r.timestamp) # m})

\* COUNT(*)
Count(b) == BagCardinality(b)

RECURSIVE SetMin(_)
SetMin(S) == LET x == CHOOSE y \in S : TRUE
             IN IF S = {x} THEN x
                ELSE LET r == SetMin(S \ {x}) IN IF x < r THEN x ELSE r

RECURSIVE SetMax(_)
SetMax(S) == LET x == CHOOSE y \in S : TRUE
             IN IF S = {x} THEN x
                ELSE LET r == SetMax(S \ {x}) IN IF x > r THEN x ELSE r

\* MIN(timestamp) / MAX(timestamp): NULL over no rows.
MinTs(b) == IF DOMAIN b = {} THEN NULL ELSE SetMin({r.timestamp : r \in DOMAIN b})
MaxTs(b) == IF DOMAIN b = {} THEN NULL ELSE SetMax({r.timestamp : r \in DOMAIN b})


RECURSIVE SortedSeq(_)
\* ORDER BY month: the elements of a set of numbers in ascending order.
SortedSeq(S) == IF S = {} THEN <<>>
                ELSE LET x == SetMin(S) IN <<x>> \o SortedSeq(S \ {x})

SeqToSet(s) == {s[i] : i \in 1..Len(s)}

\* ------------------------------------------------------------- catalog
\* ArchiveRecord: one row of the table archives.
ArchiveRecord(m, path, n) ==
  [month |-> m, file_path |-> path, record_count |-> n, deleted |-> FALSE]

\* SELECT month FROM archives WHERE deleted = TRUE
archived_months(cat) == {cat[i].month : i \in {k \in 1..Len(cat) : cat[k].deleted}}

\* The catalog rows of one month, in insertion order.
RecordsOf(cat, m) == SelectSeq(cat, LAMBDA r : r.month = m)

\* ------------------------------------------------------ period selection
\* Mutant of get_months_to_archive: the archived months are not filtered out.
get_months_unfiltered(tbl, cat, clock) ==
  LET cutoff == clock - MinAgeDays
      rows   == RowsWhere(tbl, {r \in DOMAIN tbl : r.timestamp < cutoff})
  IN SortedSeq({MonthOf(r.timestamp) : r \in DOMAIN rows})

\* get_months_to_archive: the months that have rows older than the cutoff
\* and no catalog row with deleted = TRUE.  The WHERE clause filters the rows
\* before they are grouped, so HAVING MAX(timestamp) sees the filtered rows.
get_months_to_archive(tbl, cat, clock) ==
  LET cutoff == clock - MinAgeDays
      rows   == RowsWhere(tbl, {r \in DOMAIN tbl :
                                 /\ r.timestamp < cutoff
                                 /\ MonthOf(r.timestamp) \notin archived_months(cat)})
      groups == {MonthOf(r.timestamp) : r \in DOMAIN rows}
      having == {m \in groups : MaxTs(MonthRows(rows, m)) < cutoff}
  IN SortedSeq(having)

\* ----------------------------------------------------- cumulative stats
\* The row id = 1 of stats_cumulative; exists = FALSE while it is missing.
NoStats ==
  [exists |-> FALSE, total_searches |-> 0, total_users |-> 0, total_queries |-> 0,
   total_search_pairs |-> 0, first_search |-> NULL, last_search |-> NULL,
   client_totals |-> EmptyBag, last_archive_month |-> NULL]

\* INSERT INTO stats_cumulative VALUES (1, 0, 0, 0, 0, NULL, NULL, '{}', NULL)
ZeroStats == [NoStats EXCEPT !.exists = TRUE]

\* The first query of update_cumulative_stats: a month's aggregates.
MonthStatsQuery(tbl, m) ==
  LET rows == MonthRows(tbl, m) IN
  [searches     |-> Count(rows),
   users        |-> Cardinality({r.username : r \in DOMAIN rows}),
   queries      |-> Cardinality({NormalizedQuery(r.query) : r \in DOMAIN rows}),
   search_pairs |-> Cardinality({<<r.username, "|", NormalizedQuery(r.query)>> : r \in DOMAIN rows}),
   first_search |-> MinTs(rows),
   last_search  |-> MaxTs(rows)]

\* SELECT client_id, COUNT(*) ... GROUP BY client_id, as a dict.
MonthClientTotals(tbl, m) ==
  LET rows == MonthRows(tbl, m)
      ids  == {r.client_id : r \in DOMAIN rows}
  IN [c \in ids |-> Count(RowsWhere(rows, {r \in DOMAIN rows : r.client_id = c}))]

\* Mutant of MergeClientTotals: the clients that the month does not hold are
\* dropped.
MergeClientTotalsMonthOnly(curr, mct) ==
  [c \in DOMAIN mct |-> (IF c \in DOMAIN curr THEN curr[c] ELSE 0) + mct[c]]

\* new_client_totals: curr_clients.copy(), then key-wise addition.
MergeClientTotals(curr, mct) ==
  [c \in DOMAIN curr \cup DOMAIN mct |->
     (IF c \in DOMAIN curr THEN curr[c] ELSE 0) + (IF c \in DOMAIN mct THEN mct[c] ELSE 0)]

Min2(a, b) == IF a < b THEN a ELSE b
Max2(a, b) == IF a > b THEN a ELSE b

\* Mutant of MergeStats: total_searches is overwritten with the month's count.
MergeStatsOverwrite(curr, ms, mct, m) ==
  [exists             |-> TRUE,
   total_searches     |-> ms.searches,
   total_users        |-> curr.total_users + ms.users,
   total_queries      |-> curr.total_queries + ms.queries,
   total_search_pairs |-> curr.total_search_pairs + ms.search_pairs,
   first_search       |-> IF curr.first_search = NULL THEN ms.first_search
                          ELSE Min2(curr.first_search, ms.first_search),
   last_search        |-> IF curr.last_search = NULL THEN ms.last_search
                          ELSE Max2(curr.last_search, ms.last_search),
   client_totals      |-> MergeClientTotals(curr.client_totals, mct),
   last_archive_month |-> m]

\* Mutant of MergeStats: first_search is merged with max instead of min.
MergeStatsFirstMax(curr, ms, mct, m) ==
  [exists             |-> TRUE,
   total_searches     |-> curr.total_searches + ms.searches,
   total_users        |-> curr.total_users + ms.users,
   total_queries      |-> curr.total_queries + ms.queries,
   total_search_pairs |-> curr.total_search_pairs + ms.search_pairs,
   first_search       |-> IF curr.first_search = NULL THEN ms.first_search
                          ELSE Max2(curr.first_search, ms.first_search),
   last_search        |-> IF curr.last_search = NULL THEN ms.last_search
                          ELSE Max2(curr.last_search, ms.last_search),
   client_totals      |-> MergeClientTotals(curr.client_totals, mct),
   last_archive_month |-> m]

\* The new values written by the UPDATE of update_cumulative_stats.
MergeStats(curr, ms, mct, m) ==
  [exists             |-> TRUE,
   total_searches     |-> curr.total_searches + ms.searches,
   total_users        |-> curr.total_users + ms.users,
   total_queries      |-> curr.total_queries + ms.queries,
   total_search_pairs |-> curr.total_search_pairs + ms.search_pairs,
   first_search       |-> IF curr.first_search = NULL THEN ms.first_search
                          ELSE Min2(curr.first_search, ms.first_search),
   last_search        |-> IF curr.last_search = NULL THEN ms.last_search
                          ELSE Max2(curr.last_search, ms.last_search),
   client_totals      |-> MergeClientTotals(curr.client_totals, mct),
   last_archive_month |-> m]


\* ------------------------------------------------------------------ state
Jobs == {1, 2}

\* An archive file: searches_<month>.parquet (script) or .csv.gz (client).
Kinds == {"parquet", "csv"}
Paths == Kinds \X Months
NoFile == [exists |-> FALSE, rows |-> EmptyBag]

VARIABLES
  now,        \* the clock, in days
  searches,   \* the table searches: a bag of SearchRecord
  archives,   \* the table archives: ArchiveRecords in insertion order
  stats,      \* the row id = 1 of stats_cumulative
  files,      \* the archive directory: path -> file
  job,        \* the archival processes: their position and local variables
  hist,       \* history: what has happened so far (no code reads it)
  report,     \* the reporting scripts: their data frame and their results
  collector   \* a ResearchClient: its queue, its tasks and what it has saved

vars == <<now, searches, archives, stats, files, job, hist, report, collector>>

\* ResearchClient.__init__: the empty queue, no batch task, not running.
\* received numbers the searches in the order of their reception; flushing
\* holds the batches of the calls of _flush_searches that await their commit;
\* saved lists the searches in the order of their INSERT.
NoCollector ==
  [pc |-> "init", _running |-> FALSE, soulseek |-> FALSE, _search_queue |-> <<>>,
   _batch_task |-> "none", flushing |-> {}, saved |-> <<>>, received |-> 0,
   failures |-> 0]

\* The reporting scripts before they have run.
NoReport ==
  [loaded |-> FALSE, df |-> <<>>, prev |-> <<>>, passes |-> 0,
   analyzed |-> "no", events |-> {}, clients |-> {}, results |-> {},
   total_events |-> 0, full_convergence |-> 0, convergence_rate |-> <<0, 1>>,
   spreads |-> {}, overlaps |-> {}]

ZeroMonthStats ==
  [searches |-> 0, users |-> 0, queries |-> 0, search_pairs |-> 0,
   first_search |-> NULL, last_search |-> NULL]

\* A process that is not running: the locals of main / archive_month.
IdleJob ==
  [pc |-> "idle", impl |-> "script", delete_after |-> FALSE,
   months |-> <<>>, idx |-> 0, month |-> NULL,
   record_count |-> 0, rec_id |-> 0,
   ms |-> ZeroMonthStats, month_client_totals |-> EmptyBag, current |-> NoStats,
   deleted |-> NULL,
   archived0 |-> {}, exported |-> {}, n0 |-> NULL, tot0 |-> 0]

Stopped == {"idle", "failed"}

\* The steps that export a month: export_month_to_parquet, and the CSV export
\* of ResearchClient.archive_month.
ExportSteps == {"export", "cexport"}

\* A run that has ended with an exception.  Of the locals only the traceback
\* is left: month is the month whose export raised, if it was an export.
FailedJob(r) ==
  [IdleJob EXCEPT !.pc = "failed",
                  !.impl = IF r.pc \in ExportSteps THEN r.impl ELSE "script",
                  !.month = IF r.pc \in ExportSteps THEN r.month ELSE NULL]

Init ==
  /\ now = 0
  /\ searches = EmptyBag
  /\ archives = <<>>
  /\ stats = NoStats
  /\ files = [p \in Paths |-> NoFile]
  /\ job = [j \in Jobs |-> IdleJob]
  /\ hist = [ingested |-> 0, runs |-> 0, merged |-> {}, purged |-> {},
             dirty |-> [j \in Jobs |-> {}], reselect |-> {}, rerun |-> {},
             recorded |-> {}, acc0 |-> NoStats]
  /\ report = NoReport
  /\ collector = NoCollector

\* History only: the months with a catalog row that has deleted = FALSE.
LiveRecorded(cat) == {cat[i].month : i \in {k \in 1..Len(cat) : ~cat[k].deleted}}

\* History only: the archived months that hold live rows; those that hold rows
\* older than the cutoff.
LiveArchived(tbl, cat) == {m \in archived_months(cat) : Count(MonthRows(tbl, m)) > 0}
OldArchived(tbl, cat, clock) ==
  {m \in archived_months(cat) :
     \E r \in DOMAIN tbl : MonthOf(r.timestamp) = m /\ r.timestamp < clock - MinAgeDays}

\* ------------------------------------------------------------ environment
\* The clock advances.
Tick ==
  /\ now < MaxTicks * MinAgeDays
  /\ now' = now + MinAgeDays
  /\ UNCHANGED <<collector, report, searches, archives, stats, files, job, hist>>

\* A collection client flushes one SearchRecord.  The timestamp is taken when
\* the search is received (_on_search_received); the row is inserted when the
\* batch is flushed, which is retried for as long as the commit fails.
Ingest(o) ==
  /\ hist.ingested < MaxRows
  /\ o[4] <= now
  /\ searches' = searches (+) SetToBag({SearchRecord(o)})
  /\ hist' = [hist EXCEPT !.ingested = @ + 1,
                          !.dirty = [j \in Jobs |-> IF job[j].pc \in Stopped THEN @[j]
                                                    ELSE @[j] \cup {MonthOf(o[4])}]]
  /\ UNCHANGED <<collector, report, now, archives, stats, files, job>>

\* ------------------------------------------------- scripts/archive.py
\* Mutant of ScriptNext: a purging run skips the catalog insert.
ScriptNextSkipRecord(pc, delete_after) ==
  CASE pc = "export"    -> IF delete_after THEN "stats" ELSE "record"
    [] pc = "record"    -> IF delete_after THEN "stats" ELSE "next"
    [] pc = "stats"     -> "clients"
    [] pc = "clients"   -> "readcur"
    [] pc = "update"    -> "delete"
    [] pc = "delete"    -> "mark"
    [] pc = "mark"      -> "next"

\* Mutant of ScriptNext: the stats are merged whether or not the run purges.
ScriptNextAlwaysMerge(pc, delete_after) ==
  CASE pc = "export"    -> "record"
    [] pc = "record"    -> "stats"
    [] pc = "stats"     -> "clients"
    [] pc = "clients"   -> "readcur"
    [] pc = "update"    -> IF delete_after THEN "delete" ELSE "next"
    [] pc = "delete"    -> "mark"
    [] pc = "mark"      -> "next"

\* archive_month: the step that follows step pc for a month.
ScriptNext(pc, delete_after) ==
  CASE pc = "export"    -> "record"
    [] pc = "record"    -> IF delete_after THEN "stats" ELSE "next"
    [] pc = "stats"     -> "clients"
    [] pc = "clients"   -> "readcur"
    [] pc = "update"    -> "delete"
    [] pc = "delete"    -> "mark"
    [] pc = "mark"      -> "next"

\* main: connects and selects the months to archive.
ScriptStart(j, da) ==
  /\ job[j].pc \in Stopped
  /\ hist.runs < MaxRuns
  /\ LET months == get_months_to_archive(searches, archives, now) IN
     job' = [job EXCEPT ![j] =
               [IdleJob EXCEPT !.impl = "script", !.delete_after = da,
                               !.archived0 = archived_months(archives),
                               !.months = months,
                               !.idx = IF months = <<>> THEN 0 ELSE 1,
                               !.month = IF months = <<>> THEN NULL ELSE months[1],
                               !.pc = IF months = <<>> THEN "idle" ELSE "export"]]
  /\ hist' = [hist EXCEPT !.runs = @ + 1, !.dirty[j] = {},
                          !.reselect = @ \cup OldArchived(searches, archives, now),
                          !.rerun = @ \cup LiveArchived(searches, archives)]
  /\ UNCHANGED <<collector, report, now, searches, archives, stats, files>>

\* export_month_to_parquet: reads the month and writes the Parquet file.
Export(j) ==
  /\ job[j].pc = "export"
  /\ LET m  == job[j].month
         df == MonthRows(searches, m) IN
     /\ files' = [files EXCEPT ![<<"parquet", m>>] = [exists |-> TRUE, rows |-> df]]
     /\ job' = [job EXCEPT ![j].record_count = Count(df),
                           ![j].exported = @ \cup {m},
                           ![j].n0 = Count(df),
                           ![j].tot0 = stats.total_searches,
                           ![j].deleted = NULL,
                           ![j].pc = ScriptNext("export", job[j].delete_after)]
  /\ hist' = [hist EXCEPT !.dirty[j] = @ \ {job[j].month}]
  /\ UNCHANGED <<collector, report, now, searches, archives, stats>>

\* record_archive: INSERT INTO archives ... deleted = FALSE; commit.
Record(j) ==
  /\ job[j].pc = "record"
  /\ archives' = Append(archives,
                        ArchiveRecord(job[j].month, <<"parquet", job[j].month>>,
                                      job[j].record_count))
  /\ job' = [job EXCEPT ![j].rec_id = Len(archives) + 1,
                        ![j].pc = ScriptNext("record", job[j].delete_after)]
  /\ hist' = [hist EXCEPT !.recorded = @ \cup LiveRecorded(archives')]
  /\ UNCHANGED <<collector, report, now, searches, stats, files>>

\* update_cumulative_stats: the month's aggregates; nothing to merge for 0 rows.
MonthStats(j) ==
  /\ job[j].pc = "stats"
  /\ LET ms == MonthStatsQuery(searches, job[j].month) IN
     job' = [job EXCEPT ![j].ms = ms,
                        ![j].pc = IF ms.searches = 0 THEN ScriptNext("update", job[j].delete_after)
                                  ELSE ScriptNext("stats", job[j].delete_after)]
  /\ UNCHANGED <<collector, report, now, searches, archives, stats, files, hist>>

\* update_cumulative_stats: the per-client counts of the month.
ClientTotals(j) ==
  /\ job[j].pc = "clients"
  /\ job' = [job EXCEPT ![j].month_client_totals = MonthClientTotals(searches, job[j].month),
                        ![j].pc = ScriptNext("clients", job[j].delete_after)]
  /\ UNCHANGED <<collector, report, now, searches, archives, stats, files, hist>>

\* update_cumulative_stats: SELECT ... FROM stats_cumulative WHERE id = 1.
ReadCurrent(j) ==
  /\ job[j].pc = "readcur"
  /\ job' = [job EXCEPT ![j].current = stats,
                        ![j].pc = IF stats.exists THEN "update" ELSE "initstats"]
  /\ UNCHANGED <<collector, report, now, searches, archives, stats, files, hist>>

\* update_cumulative_stats: current is None, so the zero row is inserted and
\* committed.  (With the row already there the INSERT of id = 1 raises: Fail.)
InitStats(j) ==
  /\ job[j].pc = "initstats"
  /\ ~stats.exists
  /\ stats' = ZeroStats
  /\ job' = [job EXCEPT ![j].current = ZeroStats, ![j].pc = "update"]
  /\ UNCHANGED <<collector, report, now, searches, archives, files, hist>>

\* update_cumulative_stats: UPDATE stats_cumulative SET ... WHERE id = 1; commit.
UpdateStats(j) ==
  /\ job[j].pc = "update"
  /\ stats' = IF stats.exists
              THEN MergeStats(job[j].current, job[j].ms, job[j].month_client_totals,
                              job[j].month)
              ELSE stats
  /\ job' = [job EXCEPT ![j].pc = ScriptNext("update", job[j].delete_after)]
  /\ hist' = [hist EXCEPT !.merged = @ \cup {job[j].month}]
  /\ UNCHANGED <<collector, report, now, searches, archives, files>>

\* delete_archived_data: DELETE FROM searches WHERE month; commit.
Delete(j) ==
  /\ job[j].pc = "delete"
  /\ LET n == Count(MonthRows(searches, job[j].month)) IN
     /\ searches' = OtherRows(searches, job[j].month)
     /\ job' = [job EXCEPT ![j].deleted = n, ![j].pc = ScriptNext("delete", job[j].delete_after)]
     /\ hist' = [hist EXCEPT !.purged = IF n > 0 THEN @ \cup {job[j].month} ELSE @]
  /\ UNCHANGED <<collector, report, now, archives, stats, files>>

\* mark_archive_deleted: UPDATE archives SET deleted = TRUE WHERE month; commit.
Mark(j) ==
  /\ job[j].pc = "mark"
  /\ archives' = [i \in 1..Len(archives) |->
                    IF archives[i].month = job[j].month
                    THEN [archives[i] EXCEPT !.deleted = TRUE] ELSE archives[i]]
  /\ job' = [job EXCEPT ![j].pc = ScriptNext("mark", job[j].delete_after)]
  /\ UNCHANGED <<collector, report, now, searches, stats, files, hist>>

\* main: the for loop moves to the next selected month, or the run is over.
Advance(j) ==
  /\ job[j].pc = "next"
  /\ job' = IF job[j].idx < Len(job[j].months)
            THEN [job EXCEPT ![j].idx = @ + 1,
                             ![j].month = job[j].months[job[j].idx + 1],
                             ![j].pc = "export"]
            ELSE [job EXCEPT ![j] = IdleJob]
  /\ UNCHANGED <<collector, report, now, searches, archives, stats, files, hist>>

\* Mutant of Fail: the catalog row is inserted before the export has succeeded,
\* so a run that fails leaves it behind.
FailLeavesRecord(j) ==
  /\ job[j].pc \notin Stopped
  /\ job[j].pc # "next"
  /\ job' = [job EXCEPT ![j] = FailedJob(job[j])]
  /\ archives' = IF job[j].pc \in ExportSteps
                 THEN Append(archives, ArchiveRecord(job[j].month, <<"parquet", job[j].month>>, 0))
                 ELSE archives
  /\ UNCHANGED <<collector, report, now, searches, stats, files, hist>>

\* A step raises (the database or the archive directory fails).  Neither main
\* nor ResearchClient.archive_month catches it: the connection is closed and
\* the exception ends the run.  What was committed stays.
Fail(j) ==
  /\ job[j].pc \notin Stopped
  /\ job[j].pc # "next"
  /\ job' = [job EXCEPT ![j] = FailedJob(job[j])]
  /\ UNCHANGED <<collector, report, now, searches, archives, stats, files, hist>>


\* The process is over once the function has returned.
Finish(r) == IF r.pc = "done" THEN IdleJob ELSE r

\* ------------------------------------- ResearchClient.archive_month (CLI)
\* Mutant of ClientNext: the rows are deleted whether or not delete_after is set.
ClientNextAlwaysDelete(pc, delete_after) ==
  CASE pc = "count"   -> "cexport"
    [] pc = "cexport" -> "crecord"
    [] pc = "crecord" -> "cdelete"
    [] pc = "cdelete" -> "cmark"
    [] pc = "cmark"   -> "done"

\* archive_month: the step that follows step pc.
ClientNext(pc, delete_after) ==
  CASE pc = "count"   -> "cexport"
    [] pc = "cexport" -> "crecord"
    [] pc = "crecord" -> IF delete_after THEN "cdelete" ELSE "done"
    [] pc = "cdelete" -> "cmark"
    [] pc = "cmark"   -> "done"

\* Mutant of ClientStart: the already-archived check is left out.
ClientStartNoCheck(j, da, m) ==
  /\ job[j].pc \in Stopped
  /\ hist.runs < MaxRuns
  /\ job' = [job EXCEPT ![j] =
               [IdleJob EXCEPT !.impl = "client", !.delete_after = da,
                               !.archived0 = archived_months(archives),
                               !.months = <<m>>, !.idx = 1, !.month = m,
                               !.pc = "count"]]
  /\ hist' = [hist EXCEPT !.runs = @ + 1, !.dirty[j] = {},
                          !.rerun = @ \cup (LiveArchived(searches, archives) \cap {m})]
  /\ UNCHANGED <<collector, report, now, searches, archives, stats, files>>

\* The CLI command archive: archive_month(year, month, delete_after) checks
\* whether the month is already archived.  scalar_one_or_none returns None for
\* no row, the row for one, and raises MultipleResultsFound for more.
ClientStart(j, da, m) ==
  /\ job[j].pc \in Stopped
  /\ hist.runs < MaxRuns
  /\ LET n == Len(RecordsOf(archives, m))
         r == [IdleJob EXCEPT !.impl = "client", !.delete_after = da,
                              !.archived0 = archived_months(archives),
                              !.months = <<m>>, !.idx = 1, !.month = m,
                              !.pc = IF n = 0 THEN "count" ELSE "done"] IN
     job' = [job EXCEPT ![j] = IF n > 1 THEN FailedJob(r) ELSE Finish(r)]
  /\ hist' = [hist EXCEPT !.runs = @ + 1, !.dirty[j] = {},
                          !.rerun = @ \cup (LiveArchived(searches, archives) \cap {m})]
  /\ UNCHANGED <<collector, report, now, searches, archives, stats, files>>

\* archive_month: SELECT COUNT(id) of the month; None is returned for 0.
CCount(j) ==
  /\ job[j].pc = "count"
  /\ LET n == Count(MonthRows(searches, job[j].month)) IN
     job' = [job EXCEPT ![j] =
               Finish([@ EXCEPT !.record_count = n,
                                !.pc = IF n = 0 THEN "done"
                                       ELSE ClientNext("count", job[j].delete_after)])]
  /\ UNCHANGED <<collector, report, now, searches, archives, stats, files, hist>>

\* archive_month: writes the month's rows to searches_<month>.csv.gz.
CExport(j) ==
  /\ job[j].pc = "cexport"
  /\ LET m == job[j].month IN
     /\ files' = [files EXCEPT ![<<"csv", m>>] =
                                  [exists |-> TRUE, rows |-> MonthRows(searches, m)]]
     /\ job' = [job EXCEPT ![j].exported = @ \cup {m},
                           ![j].n0 = Count(MonthRows(searches, m)),
                           ![j].tot0 = stats.total_searches,
                           ![j].pc = ClientNext("cexport", job[j].delete_after)]
  /\ hist' = [hist EXCEPT !.dirty[j] = @ \ {job[j].month}]
  /\ UNCHANGED <<collector, report, now, searches, archives, stats>>

\* archive_month: session.add(archive_record); commit.
CRecord(j) ==
  /\ job[j].pc = "crecord"
  /\ archives' = Append(archives,
                        ArchiveRecord(job[j].month, <<"csv", job[j].month>>,
                                      job[j].record_count))
  /\ job' = [job EXCEPT ![j] =
               Finish([@ EXCEPT !.rec_id = Len(archives) + 1,
                                !.pc = ClientNext("crecord", job[j].delete_after)])]
  /\ hist' = [hist EXCEPT !.recorded = @ \cup LiveRecorded(archives')]
  /\ UNCHANGED <<collector, report, now, searches, stats, files>>

\* archive_month: delete(SearchRecord) of the month; commit.
CDelete(j) ==
  /\ job[j].pc = "cdelete"
  /\ LET n == Count(MonthRows(searches, job[j].month)) IN
     /\ searches' = OtherRows(searches, job[j].month)
     /\ job' = [job EXCEPT ![j].deleted = n, ![j].pc = ClientNext("cdelete", job[j].delete_after)]
     /\ hist' = [hist EXCEPT !.purged = IF n > 0 THEN @ \cup {job[j].month} ELSE @]
  /\ UNCHANGED <<collector, report, now, archives, stats, files>>

\* archive_month: archive_record.deleted = True; commit (that record only).
CMark(j) ==
  /\ job[j].pc = "cmark"
  /\ archives' = [archives EXCEPT ![job[j].rec_id].deleted = TRUE]
  /\ job' = [job EXCEPT ![j] = Finish([@ EXCEPT !.pc = ClientNext("cmark", job[j].delete_after)])]
  /\ UNCHANGED <<collector, report, now, searches, stats, files, hist>>

\* ------------------------------------------------------- specifications
\* Archival runs one after the other: one job process.
Next ==
  \/ Tick
  \/ \E o \in Observations : Ingest(o)
  \/ \E da \in BOOLEAN : ScriptStart(1, da)
  \/ \E da \in BOOLEAN, m \in Months : ClientStart(1, da, m)
  \/ Export(1)
  \/ Record(1)
  \/ MonthStats(1)
  \/ ClientTotals(1)
  \/ ReadCurrent(1)
  \/ InitStats(1)
  \/ UpdateStats(1)
  \/ Delete(1)
  \/ Mark(1)
  \/ Advance(1)
  \/ CCount(1)
  \/ CExport(1)
  \/ CRecord(1)
  \/ CDelete(1)
  \/ CMark(1)
  \/ Fail(1)

Spec == Init /\ [][Next]_vars

\* Two archival runs of the script at the same time (two cron invocations).
NextConc ==
  \/ Tick
  \/ \E o \in Observations : Ingest(o)
  \/ \E j \in Jobs : ScriptStart(j, TRUE)
  \/ \E j \in Jobs : Export(j)
  \/ \E j \in Jobs : Record(j)
  \/ \E j \in Jobs : MonthStats(j)
  \/ \E j \in Jobs : ClientTotals(j)
  \/ \E j \in Jobs : ReadCurrent(j)
  \/ \E j \in Jobs : InitStats(j)
  \/ \E j \in Jobs : UpdateStats(j)
  \/ \E j \in Jobs : Delete(j)
  \/ \E j \in Jobs : Mark(j)
  \/ \E j \in Jobs : Advance(j)
  \/ \E j \in Jobs : Fail(j)

SpecConc == Init /\ [][NextConc]_vars

\* A step of a run raises while the job will be run again.
FailRetried(j) ==
  /\ hist.runs < MaxRuns
  /\ Fail(j)

\* A step of the purging script: a run starts, or the run under way goes on.
ScriptStep(j) ==
  \/ ScriptStart(j, TRUE)
  \/ Export(j) \/ Record(j)
  \/ MonthStats(j) \/ ClientTotals(j) \/ ReadCurrent(j) \/ InitStats(j) \/ UpdateStats(j)
  \/ Delete(j) \/ Mark(j) \/ Advance(j)

\* The purging script run by the scheduler: a run that is not failing goes on
\* to its end, and the job is started again after a run has ended, so every
\* run that aborts is followed by another run.
NextLive ==
  \/ Tick
  \/ \E o \in Observations : Ingest(o)
  \/ ScriptStart(1, TRUE)
  \/ Export(1)
  \/ Record(1)
  \/ MonthStats(1)
  \/ ClientTotals(1)
  \/ ReadCurrent(1)
  \/ InitStats(1)
  \/ UpdateStats(1)
  \/ Delete(1)
  \/ Mark(1)
  \/ Advance(1)
  \/ FailRetried(1)

SpecLive == Init /\ [][NextLive]_vars /\ WF_vars(ScriptStep(1))
\* ------------------------------------------ update_cumulative_stats alone
\* A function to the naturals as a bag: the elements it maps to 0 are left out.
AsBag(f) == [r \in {x \in DOMAIN f : f[x] > 0} |-> f[r]]

\* The live stores that update_cumulative_stats is applied to.
InputStores ==
  {AsBag(f) : f \in {g \in [{SearchRecord(o) : o \in Observations} -> 0..MaxRows] :
                       BagCardinality(AsBag(g)) <= MaxRows}}

\* The stats rows that update_cumulative_stats is applied to: the missing row,
\* the zero row, and the rows that one earlier merge leaves.
Accumulators ==
  {NoStats, ZeroStats} \cup
  {MergeStats(ZeroStats, MonthStatsQuery(x[1], x[2]), MonthClientTotals(x[1], x[2]), x[2]) :
     x \in {y \in InputStores \X Months : Count(MonthRows(y[1], y[2])) > 0}}

\* archive_month calls update_cumulative_stats(conn, month) on some live store
\* and some stats row.
InitMerge ==
  /\ now = MaxTicks * MinAgeDays
  /\ searches \in InputStores
  /\ archives = <<>>
  /\ stats \in Accumulators
  /\ files = [p \in Paths |-> NoFile]
  /\ \E m \in Months :
       job = [j \in Jobs |->
                IF j = 1
                THEN [IdleJob EXCEPT !.pc = "stats", !.delete_after = TRUE,
                                     !.months = <<m>>, !.idx = 1, !.month = m]
                ELSE IdleJob]
  /\ hist = [ingested |-> 0, runs |-> 0, merged |-> {}, purged |-> {},
             dirty |-> [j \in Jobs |-> {}], reselect |-> {}, rerun |-> {},
             recorded |-> {}, acc0 |-> stats]
  /\ report = NoReport
  /\ collector = NoCollector

NextMerge ==
  \/ MonthStats(1)
  \/ ClientTotals(1)
  \/ ReadCurrent(1)
  \/ InitStats(1)
  \/ UpdateStats(1)

SpecMerge == InitMerge /\ [][NextMerge]_vars
\* ------------------------------ scripts/generate_stats.py, analyze_convergence.py
\* The reporting scripts read the live store.  Their timestamps count seconds.
MaxFrame == 4     \* rows in the live store that the reporting scripts read
MaxPasses == 2    \* calls of deduplicate_dataframe on one frame

WindowSeconds == 300      \* dt.floor('5min'); window_minutes = 5, times 60
AnalysisSeconds == 86400  \* hours = 24

\* (client_id, username, query, second): two observations of one search whose
\* texts differ by case and blanks, in one 5-minute bucket; one a second later
\* in the next bucket; two more at that same second; a second observation of
\* the first search by client c2 and one by a third client; one at the last
\* second of the analysis.
ReportObservations ==
  { <<"c1", "u1", <<" ", "R">>, 0>>,
    <<"c2", "u1", <<"r">>, WindowSeconds - 1>>,
    <<"c1", "u1", <<"r">>, WindowSeconds>>,
    <<"c2", "u1", <<"r">>, WindowSeconds>>,
    <<"c1", "u2", <<"j", " ">>, WindowSeconds>>,
    <<"c2", "u1", <<"r">>, 0>>,
    <<"c3", "u1", <<"r">>, 1>>,
    <<"c1", "u2", <<"j", " ">>, AnalysisSeconds>> }

ReportStores ==
  {SetToBag(S) : S \in {T \in SUBSET {SearchRecord(o) : o \in ReportObservations} :
                          Cardinality(T) <= MaxFrame}}

\* The frames that hold the rows of a bag, each as often as the bag does.
FramesOf(b) ==
  {s \in [1..BagCardinality(b) -> DOMAIN b] :
     \A r \in DOMAIN b : Cardinality({i \in DOMAIN s : s[i] = r}) = b[r]}

IsSorted(s) == \A i, j \in DOMAIN s : i < j => s[i].timestamp <= s[j].timestamp

\* load_search_data: WHERE timestamp >= start AND timestamp <= end
\* ORDER BY timestamp; rows with equal timestamps come in any order.
load_search_data(tbl, start_date, end_date) ==
  {s \in FramesOf(RowsWhere(tbl, {r \in DOMAIN tbl :
                                    r.timestamp >= start_date /\ r.timestamp <= end_date})) :
     IsSorted(s)}

\* df['timestamp'].dt.floor('5min')
TimeBucket(t) == (t \div WindowSeconds) * WindowSeconds

\* df.assign(time_bucket = ...): the row with the bucket column.
AssignBucket(r) ==
  [client_id |-> r.client_id, timestamp |-> r.timestamp, username |-> r.username,
   query |-> r.query, time_bucket |-> TimeBucket(r.timestamp)]

\* Mutant of DropBucket: the timestamp column is replaced by the bucket.
DropBucketFloored(r) ==
  [client_id |-> r.client_id, timestamp |-> r.time_bucket, username |-> r.username,
   query |-> r.query]

\* .drop(columns = ['time_bucket'])
DropBucket(r) ==
  [client_id |-> r.client_id, timestamp |-> r.timestamp, username |-> r.username,
   query |-> r.query]

\* df.sort_values('timestamp'): the default sort is not stable, so rows with
\* equal timestamps come out in any order.
sort_values(df) ==
  {s \in {[i \in DOMAIN df |-> df[p[i]]] :
            p \in {q \in [DOMAIN df -> DOMAIN df] :
                      \A i, j \in DOMAIN df : i # j => q[i] # q[j]}} :
     IsSorted(s)}

\* subset = ['username', 'query', 'time_bucket']
DedupKey(r) == <<r.username, r.query, r.time_bucket>>

RECURSIVE drop_duplicates(_, _)
\* drop_duplicates(subset, keep = 'first'): seen holds the keys of the rows kept.
drop_duplicates(s, seen) ==
  IF s = <<>> THEN <<>>
  ELSE IF DedupKey(Head(s)) \in seen THEN drop_duplicates(Tail(s), seen)
       ELSE <<Head(s)>> \o drop_duplicates(Tail(s), seen \cup {DedupKey(Head(s))})

\* deduplicate_dataframe: the frames it can return for df.
deduplicate_dataframe(df) ==
  IF df = <<>> THEN {df}
  ELSE {[i \in DOMAIN d |-> DropBucket(d[i])] :
          d \in {drop_duplicates(s, {}) :
                   s \in sort_values([i \in DOMAIN df |-> AssignBucket(df[i])])}}

\* FLOOR(EXTRACT(EPOCH FROM timestamp) / window_seconds)
FloorBucket(t) == t \div WindowSeconds

\* WHERE timestamp >= start_time AND timestamp <= end_time
InRange(tbl, start_time, end_time) ==
  RowsWhere(tbl, {r \in DOMAIN tbl : r.timestamp >= start_time /\ r.timestamp <= end_time})

\* The CTE search_events: GROUP BY username, norm_query, client_id, bucket.
search_events(rows) ==
  {[username |-> r.username, norm_query |-> NormalizedQuery(r.query),
    client_id |-> r.client_id, time_bucket |-> FloorBucket(r.timestamp)] : r \in DOMAIN rows}

\* The CTE event_client_counts: GROUP BY username, norm_query, time_bucket.
event_client_counts(se) ==
  {[username |-> e.username, norm_query |-> e.norm_query, time_bucket |-> e.time_bucket,
    client_count |-> Cardinality({f.client_id : f \in
                        {g \in se : /\ g.username = e.username
                                     /\ g.norm_query = e.norm_query
                                     /\ g.time_bucket = e.time_bucket}})] : e \in se}

\* The reporting scripts start on a live store.
InitReport ==
  /\ now = AnalysisSeconds
  /\ searches \in ReportStores
  /\ archives = <<>>
  /\ stats = NoStats
  /\ files = [p \in Paths |-> NoFile]
  /\ job = [j \in Jobs |-> IdleJob]
  /\ hist = [ingested |-> 0, runs |-> 0, merged |-> {}, purged |-> {},
             dirty |-> [j \in Jobs |-> {}], reselect |-> {}, rerun |-> {},
             recorded |-> {}, acc0 |-> NoStats]
  /\ report = NoReport
  /\ collector = NoCollector

\* generate_stats main: week_raw = load_search_data(conn, start, end).
LoadSearchData ==
  /\ ~report.loaded
  /\ \E s \in load_search_data(searches, now - AnalysisSeconds, now) :
       report' = [report EXCEPT !.loaded = TRUE, !.df = s]
  /\ UNCHANGED <<now, searches, archives, stats, files, job, hist, collector>>

\* deduplicate_dataframe is called on the frame at hand: the loaded frame, or
\* the frame that an earlier call has returned.
Deduplicate ==
  /\ report.loaded
  /\ report.passes < MaxPasses
  /\ \E d \in deduplicate_dataframe(report.df) :
       report' = [report EXCEPT !.prev = report.df, !.df = d, !.passes = @ + 1]
  /\ UNCHANGED <<now, searches, archives, stats, files, job, hist, collector>>

\* Mutant of distribution: the events seen by one client are left out.
distribution_multi(ecc) ==
  {[client_count |-> k, event_count |-> Cardinality({e \in ecc : e.client_count = k})] :
     k \in {e.client_count : e \in ecc} \ {1}}

\* SELECT client_count, COUNT(*) ... GROUP BY client_count: the distribution
\* of the events over the number of clients that saw them.
distribution(ecc) ==
  {[client_count |-> k, event_count |-> Cardinality({e \in ecc : e.client_count = k})] :
     k \in {e.client_count : e \in ecc}}

RECURSIVE total_events(_)
\* sum(row['event_count'] for row in results)
total_events(results) ==
  IF results = {} THEN 0
  ELSE LET row == CHOOSE x \in results : TRUE
       IN row.event_count + total_events(results \ {row})

\* Mutant of full_convergence: the events seen by any number of clients count.
full_convergence_any(ecc, n) == Cardinality({e \in ecc : e.client_count >= 1})

\* HAVING COUNT(DISTINCT client_id) = len(clients)
full_convergence(ecc, n) == Cardinality({e \in ecc : e.client_count = n})

\* convergence_rate = full_convergence / total_events * 100, kept as the
\* fraction <<numerator, denominator>>; 0 when there are no events.
convergence_rate(full, total) == IF total > 0 THEN <<full * 100, total>> ELSE <<0, 1>>

\* The rows of one search event seen by one client.
EventRows(rows, e) ==
  RowsWhere(rows, {r \in DOMAIN rows : /\ r.username = e.username
                                        /\ NormalizedQuery(r.query) = e.norm_query
                                        /\ FloorBucket(r.timestamp) = e.time_bucket
                                        /\ r.client_id = e.client_id})

\* The CTE event_times: per event and client, first_seen = MIN(timestamp).
event_times(rows) ==
  {[username |-> e.username, norm_query |-> e.norm_query, time_bucket |-> e.time_bucket,
    client_id |-> e.client_id, first_seen |-> MinTs(EventRows(rows, e))] :
     e \in search_events(rows)}

\* CASE WHEN spread_seconds < 60 THEN '< 1 min' ...
time_spread(spread_seconds) ==
  CASE spread_seconds < 60   -> "< 1 min"
    [] spread_seconds < 300  -> "1-5 min"
    [] spread_seconds < 900  -> "5-15 min"
    [] spread_seconds < 3600 -> "15-60 min"
    [] OTHER                 -> "> 1 hour"

\* The CTEs multi_client_events and bucketed: per event seen by two clients or
\* more, spread_seconds = MAX(first_seen) - MIN(first_seen) and its class.
multi_client_events(et) ==
  {[username |-> k[1], norm_query |-> k[2], time_bucket |-> k[3],
    spread_seconds |-> SetMax({f.first_seen : f \in
                          {g \in et : <<g.username, g.norm_query, g.time_bucket>> = k}})
                       - SetMin({f.first_seen : f \in
                          {g \in et : <<g.username, g.norm_query, g.time_bucket>> = k}}),
    time_spread |-> time_spread(
                       SetMax({f.first_seen : f \in
                          {g \in et : <<g.username, g.norm_query, g.time_bucket>> = k}})
                       - SetMin({f.first_seen : f \in
                          {g \in et : <<g.username, g.norm_query, g.time_bucket>> = k}})),
    client_count |-> Cardinality({g.client_id : g \in
                          {h \in et : <<h.username, h.norm_query, h.time_bucket>> = k}})] :
     k \in {x \in {<<e.username, e.norm_query, e.time_bucket>> : e \in et} :
              Cardinality({g.client_id : g \in
                 {h \in et : <<h.username, h.norm_query, h.time_bucket>> = x}}) >= 2}}

\* The CTEs events_a / events_b: SELECT DISTINCT username, norm_query,
\* time_bucket ... WHERE client_id = c.
client_events(rows, c) ==
  {<<r.username, NormalizedQuery(r.query), FloorBucket(r.timestamp)>> :
     r \in {x \in DOMAIN rows : x.client_id = c}}

\* Mutant of overlap: the share is taken of the other client's events.
overlap_of_other(rows, a, b) ==
  LET events_a == client_events(rows, a)
      events_b == client_events(rows, b)
      count_b  == Cardinality(events_b)
      a_in_b   == Cardinality({e \in events_a : e \in events_b}) IN
  [a |-> a, b |-> b, a_in_b |-> a_in_b, count_a |-> count_b,
   subset |-> count_b > 0 /\ a_in_b * 100 >= 95 * count_b]

\* The pairwise overlap in the direction a -> b: a_in_b of count_a events of a
\* are events of b; pct_a_in_b = a_in_b / count_a * 100 (0 for count_a = 0),
\* and the ~subset warning is printed for pct_a_in_b >= 95.
overlap(rows, a, b) ==
  LET events_a == client_events(rows, a)
      events_b == client_events(rows, b)
      count_a  == Cardinality(events_a)
      a_in_b   == Cardinality({e \in events_a : e \in events_b}) IN
  [a |-> a, b |-> b, a_in_b |-> a_in_b, count_a |-> count_a,
   subset |-> count_a > 0 /\ a_in_b * 100 >= 95 * count_a]

\* Mutant of AnalyzeConvergence: no early return for fewer than two clients.
AnalyzeConvergenceAlways ==
  /\ report.analyzed = "no"
  /\ LET rows    == InRange(searches, now - AnalysisSeconds, now)
         clients == {r.client_id : r \in DOMAIN rows}
         ecc     == event_client_counts(search_events(rows))
         results == distribution(ecc) IN
     report' = [report EXCEPT !.analyzed = "done",
                              !.clients = clients,
                              !.events = ecc,
                              !.results = results,
                              !.total_events = total_events(results)]
  /\ UNCHANGED <<now, searches, archives, stats, files, job, hist, collector>>

\* analyze_convergence: returns early with fewer than two active clients,
\* else groups the observations of the range into search events and computes
\* their distribution over the clients, the full-convergence rate, the spread
\* times and the pairwise overlaps (both directions of every pair).
AnalyzeConvergence ==
  /\ report.analyzed = "no"
  /\ LET rows    == InRange(searches, now - AnalysisSeconds, now)
         clients == {r.client_id : r \in DOMAIN rows}
         ecc     == event_client_counts(search_events(rows))
         results == distribution(ecc) IN
     report' = IF Cardinality(clients) < 2
               THEN [report EXCEPT !.analyzed = "insufficient", !.clients = clients]
               ELSE [report EXCEPT !.analyzed = "done",
                                   !.clients = clients,
                                   !.events = ecc,
                                   !.results = results,
                                   !.total_events = total_events(results),
                                   !.full_convergence = full_convergence(ecc, Cardinality(clients)),
                                   !.convergence_rate =
                                      convergence_rate(full_convergence(ecc, Cardinality(clients)),
                                                       total_events(results)),
                                   !.spreads = multi_client_events(event_times(rows)),
                                   !.overlaps = {overlap(rows, x[1], x[2]) :
                                                   x \in {y \in clients \X clients : y[1] # y[2]}}]
  /\ UNCHANGED <<now, searches, archives, stats, files, job, hist, collector>>

NextReport ==
  \/ LoadSearchData
  \/ Deduplicate
  \/ AnalyzeConvergence

SpecReport == InitReport /\ [][NextReport]_vars

\* ------------------------------------- ResearchClient: queue, worker, stop
MaxSearches == 3   \* searches that the Soulseek network delivers
MaxFailures == 2   \* commits that fail
batch_size == 2    \* ResearchClient(batch_size = 2)

\* The row of a received search: the timestamp is taken at reception.
ReceivedRecord == SearchRecord(<<"c1", "u1", <<"r">>, now>>)

\* Mutant of PutBack: the batch of a failed flush goes to the end of the queue.
PutBackAtEnd(batch, queue) == queue \o batch

\* self._search_queue.extendleft(reversed(batch)): the batch is put back in
\* front of the queue, in its order.
PutBack(batch, queue) == batch \o queue

\* _flush_searches up to its await: nothing for an empty queue, else the queue
\* becomes the batch of the flush that `by` awaits.
BeginFlush(c, by) ==
  IF c._search_queue = <<>> THEN c
  ELSE [c EXCEPT !.flushing = @ \cup {[by |-> by, batch |-> c._search_queue]},
                 !._search_queue = <<>>]

\* start: the tables are created, the handler is subscribed and the Soulseek
\* client is started.
StartSoulseek ==
  /\ collector.pc = "init"
  /\ collector' = [collector EXCEPT !.pc = "starting", !.soulseek = TRUE]
  /\ UNCHANGED <<now, searches, archives, stats, files, job, hist, report>>

\* start: self._running = True and the batch worker is created; start then
\* sleeps in its heartbeat loop.
StartWorker ==
  /\ collector.pc = "starting"
  /\ collector' = [collector EXCEPT !.pc = "running", !._running = TRUE,
                                    !._batch_task = "sleep"]
  /\ UNCHANGED <<now, searches, archives, stats, files, job, hist, report>>

\* _on_search_received: the search is appended to the queue, and the queue is
\* flushed when it has reached batch_size.
OnSearchReceived ==
  /\ collector.soulseek
  /\ collector.received < MaxSearches
  /\ LET c == [collector EXCEPT !.received = @ + 1,
                                !._search_queue = Append(@, collector.received + 1)] IN
     collector' = IF Len(c._search_queue) >= batch_size THEN BeginFlush(c, "handler") ELSE c
  /\ UNCHANGED <<now, searches, archives, stats, files, job, hist, report>>

\* _batch_worker: asyncio.sleep(10) returns; a queue that is not empty is
\* flushed, else the loop tests self._running.
WorkerWakes ==
  /\ collector._batch_task = "sleep"
  /\ collector._search_queue # <<>> \/ ~collector._running
  /\ collector' = IF collector._search_queue # <<>>
                  THEN [BeginFlush(collector, "worker") EXCEPT !._batch_task = "flush"]
                  ELSE [collector EXCEPT !._batch_task = "done"]
  /\ UNCHANGED <<now, searches, archives, stats, files, job, hist, report>>

\* What the caller of a flush does when the flush returns: the worker tests
\* self._running, stop goes on to stop the Soulseek client.
Resume(c, by) ==
  CASE by = "worker" -> [c EXCEPT !._batch_task = IF c._running THEN "sleep" ELSE "done"]
    [] by = "stop"   -> [c EXCEPT !.pc = "stopping"]
    [] OTHER         -> c

\* _flush_searches: session.commit() returns; the batch is in the table.
CommitSucceeds(f) ==
  /\ f \in collector.flushing
  /\ searches' = searches (+) (ReceivedRecord :> Len(f.batch))
  /\ collector' = Resume([collector EXCEPT !.flushing = @ \ {f},
                                           !.saved = @ \o f.batch], f.by)
  /\ UNCHANGED <<now, archives, stats, files, job, hist, report>>

\* _flush_searches: session.commit() raises; nothing is inserted and the
\* batch is put back.
CommitFails(f) ==
  /\ f \in collector.flushing
  /\ collector.failures < MaxFailures
  /\ collector' = Resume([collector EXCEPT !.flushing = @ \ {f},
                                           !.failures = @ + 1,
                                           !._search_queue = PutBack(f.batch, @)], f.by)
  /\ UNCHANGED <<now, searches, archives, stats, files, job, hist, report>>

\* stop is called: self._running = False, and stop awaits the batch worker.
Stop ==
  /\ collector.pc = "running"
  /\ collector' = [collector EXCEPT !.pc = "await_task", !._running = FALSE]
  /\ UNCHANGED <<now, searches, archives, stats, files, job, hist, report>>

\* stop: the batch worker has ended; the remaining searches are flushed.
StopFlushes ==
  /\ collector.pc = "await_task"
  /\ collector._batch_task = "done"
  /\ collector' = IF collector._search_queue = <<>>
                  THEN [collector EXCEPT !.pc = "stopping"]
                  ELSE [BeginFlush(collector, "stop") EXCEPT !.pc = "final_flush"]
  /\ UNCHANGED <<now, searches, archives, stats, files, job, hist, report>>

\* stop: soulseek_client.stop() returns, the engine is disposed of, and stop
\* returns.  No search is delivered after that.
StopReturns ==
  /\ collector.pc = "stopping"
  /\ collector' = [collector EXCEPT !.pc = "stopped", !.soulseek = FALSE]
  /\ UNCHANGED <<now, searches, archives, stats, files, job, hist, report>>

Flushes ==
  {[by |-> by, batch |-> b] :
     by \in {"handler", "worker", "stop"},
     b \in UNION {[1..n -> 1..MaxSearches] : n \in 1..MaxSearches}}

NextClient ==
  \/ StartSoulseek
  \/ StartWorker
  \/ OnSearchReceived
  \/ WorkerWakes
  \/ \E f \in Flushes : CommitSucceeds(f)
  \/ \E f \in Flushes : CommitFails(f)
  \/ Stop
  \/ StopFlushes
  \/ StopReturns

SpecClient == Init /\ [][NextClient]_vars

\* ------------------------------------------------------------ properties
\* The steps of a run between the start of a month's export and the commit of
\* its deleted flag.
Processing ==
  {"export", "record", "stats", "clients", "readcur", "initstats", "update",
   "delete", "mark", "cexport", "crecord", "cdelete", "cmark"}

\* The per-client totals of a stats row, 0 for a client it does not hold.
TotalOf(st, c) == IF c \in DOMAIN st.client_totals THEN st.client_totals[c] ELSE 0

CountersNotDecreasing(old, new) ==
  /\ new.total_searches >= old.total_searches
  /\ new.total_users >= old.total_users
  /\ new.total_queries >= old.total_queries
  /\ new.total_search_pairs >= old.total_search_pairs
  /\ \A c \in DOMAIN old.client_totals : TotalOf(new, c) >= old.client_totals[c]

\* C1: rows of a month are purged only after the month has been merged into
\* the cumulative stats: no state has a purged month that was never merged.
C1_MergeBeforePurge == hist.purged \subseteq hist.merged

\* C2: a step deletes rows of a month from the live store only after a
\* catalog row of that month with deleted = FALSE has been committed.
C2_RecordBeforePurge ==
  [][\A m \in Months :
       Count(MonthRows(searches', m)) < Count(MonthRows(searches, m))
         => m \in hist.recorded]_vars

C2_Witness ==
  \E m \in hist.purged : /\ Len(RecordsOf(archives, m)) > 0
                         /\ Count(MonthRows(searches, m)) = 0

\* C3: when the script has archived and purged a month that held n rows, and
\* no row of that month arrived meanwhile, then the catalog row it inserted has
\* record_count = n, the live store holds no row of the month, n rows were
\* deleted and total_searches has grown by exactly n.
C3_PurgeAccounting ==
  \A j \in Jobs :
    (/\ job[j].pc = "next" /\ job[j].impl = "script" /\ job[j].delete_after
     /\ job[j].month \notin hist.dirty[j])
    => /\ archives[job[j].rec_id].month = job[j].month
       /\ archives[job[j].rec_id].record_count = job[j].n0
       /\ archives[job[j].rec_id].deleted
       /\ Count(MonthRows(searches, job[j].month)) = 0
       /\ job[j].deleted = job[j].n0
       /\ stats.total_searches = job[j].tot0 + job[j].n0

C3_Witness ==
  \E j \in Jobs :
    /\ job[j].pc = "next" /\ job[j].impl = "script" /\ job[j].delete_after
    /\ job[j].month \notin hist.dirty[j]
    /\ job[j].n0 = 2
    /\ job[j].tot0 = 0

\* C4: selection never returns a month that has a catalog row with
\* deleted = TRUE, in any state of the catalog and the live store, and no run
\* of the script works on a month that was archived when the run selected.
C4_ArchivedNeverSelected ==
  /\ \A m \in archived_months(archives) :
       m \notin SeqToSet(get_months_to_archive(searches, archives, now))
  /\ \A j \in Jobs :
       job[j].impl = "script" => SeqToSet(job[j].months) \cap job[j].archived0 = {}

\* A run of the script has selected while an archived month held rows older
\* than the cutoff.
C4_Witness == hist.reselect # {} /\ hist.reselect \subseteq archived_months(archives)

\* C5: a run started after a month reached deleted = TRUE writes no archive
\* file of that month, inserts or changes no catalog row of it, deletes no row
\* of it, and never works on it, so it merges nothing for it into the stats.
C5_RerunChangesNothing ==
  [][\A j \in Jobs :
       (job[j].pc \notin Stopped /\ job'[j] # job[j])
       => /\ job[j].month \notin job[j].archived0
          /\ \A m \in job[j].archived0 :
               /\ \A k \in Kinds : files'[<<k, m>>] = files[<<k, m>>]
               /\ RecordsOf(archives', m) = RecordsOf(archives, m)
               /\ MonthRows(searches', m) = MonthRows(searches, m)]_vars

\* A run was started on an archived month that held live rows, and has ended.
C5_Witness == hist.rerun # {} /\ \A j \in Jobs : job[j].pc = "idle"


C8_NoLostUpdate ==
  [][\A j \in Jobs :
       (/\ job[j].pc = "update" /\ job'[j].pc = "delete"
        /\ stats.last_archive_month # job[j].month)
       => /\ stats'.total_searches = stats.total_searches + job[j].ms.searches
          /\ \A c \in DOMAIN job[j].month_client_totals :
               TotalOf(stats', c) = TotalOf(stats, c) + job[j].month_client_totals[c]]_vars

\* C9: no two jobs are between the start of the export and the commit of the
\* deleted flag of the same month at the same time.
C9_OneJobPerPeriod ==
  \A j1, j2 \in Jobs :
    (j1 # j2 /\ job[j1].pc \in Processing /\ job[j2].pc \in Processing)
    => job[j1].month # job[j2].month

\* C10: when a step of a run fails, every month the run had selected, other
\* than the one being processed, has been exported by that run: the failure
\* ends the run only after the other months were processed.
C10_FailureIsolated ==
  [][\A j \in Jobs :
       (job[j].pc \notin Stopped /\ job'[j].pc = "failed")
       => \A m \in SeqToSet(job[j].months) \ {job[j].month} : m \in job[j].exported]_vars

ZeroRowsFound(j) ==
  \/ job[j].pc = "record" /\ job[j].record_count = 0
  \/ job[j].pc = "mark" /\ (job[j].record_count = 0 \/ job[j].ms.searches = 0)

\* C12: a job that has found zero rows of a month it had selected skips the
\* month: it inserts no catalog row for it and flips none to deleted = TRUE.
C12_ZeroRowsSkipped ==
  [][\A j \in Jobs :
       (ZeroRowsFound(j) /\ job'[j] # job[j])
       => RecordsOf(archives', job[j].month) = RecordsOf(archives, job[j].month)]_vars

\* C13: a month has at most one catalog row; a row is inserted with
\* deleted = FALSE, and the only change to a row is deleted going from FALSE
\* to TRUE.
C13_RecordCreatedOnce ==
  [][\A m \in Months :
       LET old == RecordsOf(archives, m)
           new == RecordsOf(archives', m) IN
       /\ Len(new) <= 1
       /\ Len(new) >= Len(old)
       /\ \A i \in 1..Len(old) :
            \/ new[i] = old[i]
            \/ ~old[i].deleted /\ new[i] = [old[i] EXCEPT !.deleted = TRUE]
       /\ \A i \in (Len(old) + 1)..Len(new) : ~new[i].deleted]_vars

\* C14: a month is selected exactly when the live store holds rows of it, all
\* of its rows are older than the cutoff now - MinAgeDays, and it has no
\* catalog row with deleted = TRUE.
C14_SelectedWhenAllOld ==
  \A m \in Months :
    m \in SeqToSet(get_months_to_archive(searches, archives, now))
    <=> /\ Count(MonthRows(searches, m)) > 0
        /\ \A r \in DOMAIN MonthRows(searches, m) : r.timestamp < now - MinAgeDays
        /\ m \notin archived_months(archives)

\* C15: with purge disabled a run only exports and catalogs: none of its steps
\* deletes a row of the live store, changes the cumulative stats or changes a
\* catalog row, and the catalog rows of the month it works on have
\* deleted = FALSE.
C15_NoPurgeOnlyExports ==
  [][\A j \in Jobs :
       (job[j].pc \in Processing /\ ~job[j].delete_after /\ job'[j] # job[j])
       => /\ searches' = searches
          /\ stats' = stats
          /\ Len(archives') >= Len(archives)
          /\ \A i \in 1..Len(archives) : archives'[i] = archives[i]
          /\ \A i \in 1..Len(archives') :
               archives'[i].month = job[j].month => ~archives'[i].deleted]_vars

\* A purge-disabled run of the script has exported and catalogued a month.
C15_Witness ==
  \E j \in Jobs :
    /\ job[j].pc = "next" /\ ~job[j].delete_after
    /\ job[j].rec_id > 0
    /\ ~archives[job[j].rec_id].deleted
    /\ Count(MonthRows(searches, job[j].month)) = job[j].n0
    /\ job[j].n0 > 0

\* C16: every month whose rows have been deleted from the live store
\* eventually has a catalog row with deleted = TRUE, and keeps it, when every
\* aborted run is followed by another run.
C16_PurgedEventuallyArchived ==
  \A m \in Months :
    [](m \in hist.purged => <>[](m \in archived_months(archives)))

\* The reference merge of a period aggregate into an accumulator: additive
\* fields are added, the per-client totals are added key by key, the earliest
\* timestamp is the min and the latest the max of the timestamps that are set.
SetTimes(S) == S \ {NULL}
RefMerge(acc, ms, mct) ==
  [total_searches     |-> acc.total_searches + ms.searches,
   total_users        |-> acc.total_users + ms.users,
   total_queries      |-> acc.total_queries + ms.queries,
   total_search_pairs |-> acc.total_search_pairs + ms.search_pairs,
   client_totals      |-> acc.client_totals (+) mct,
   first_search       |-> IF SetTimes({acc.first_search, ms.first_search}) = {} THEN NULL
                          ELSE SetMin(SetTimes({acc.first_search, ms.first_search})),
   last_search        |-> IF SetTimes({acc.last_search, ms.last_search}) = {} THEN NULL
                          ELSE SetMax(SetTimes({acc.last_search, ms.last_search}))]

\* The merged fields of a stats row (a missing row counts as empty).
MergedFields(st) ==
  [total_searches     |-> st.total_searches,
   total_users        |-> st.total_users,
   total_queries      |-> st.total_queries,
   total_search_pairs |-> st.total_search_pairs,
   client_totals      |-> st.client_totals,
   first_search       |-> st.first_search,
   last_search        |-> st.last_search]

\* C17: when update_cumulative_stats has returned, the stats row is the
\* reference merge of the month's aggregate into the row it was called on.
C17_MergeIsReference ==
  (job[1].pc = "delete")
  => MergedFields(stats) =
       RefMerge(hist.acc0, MonthStatsQuery(searches, job[1].month),
                MonthClientTotals(searches, job[1].month))

\* A merge into a row that holds a client the month does not hold, of a month
\* that holds a client the row does not hold and an earlier first timestamp.
C17_Witness ==
  /\ job[1].pc = "delete"
  /\ hist.acc0.exists
  /\ DOMAIN hist.acc0.client_totals \ DOMAIN job[1].month_client_totals # {}
  /\ DOMAIN job[1].month_client_totals \ DOMAIN hist.acc0.client_totals # {}
  /\ job[1].ms.first_search < hist.acc0.first_search
  /\ stats.total_searches = hist.acc0.total_searches + job[1].ms.searches

\* The canonical event of an observation: subject, normalized query text and
\* 5-minute bucket.
CanonKey(r) == <<r.username, NormalizedQuery(r.query), r.timestamp \div WindowSeconds>>

\* The rows of the deduplicated frame, and the search events of the analyzer,
\* that stand for a canonical event.
DedupOf(k) == {i \in DOMAIN report.df : CanonKey(report.df[i]) = k}
EventsOf(k) == {e \in report.events : <<e.username, e.norm_query, e.time_bucket>> = k}

\* C18: two observations of one subject in one 5-minute bucket whose query
\* texts are equal after lower-casing and trimming are one canonical event:
\* one row of the deduplicated frame and one search event of the analyzer.
C18_CaseAndBlanksCollapse ==
  \A r1, r2 \in DOMAIN searches :
    (r1 # r2 /\ CanonKey(r1) = CanonKey(r2))
    => /\ report.passes >= 1 => Cardinality(DedupOf(CanonKey(r1))) = 1
       /\ report.analyzed = "done" => Cardinality(EventsOf(CanonKey(r1))) = 1

\* The 5-minute buckets that hold observations of a subject and a normalized
\* query text.
BucketsOf(u, q) ==
  {r.timestamp \div WindowSeconds :
     r \in {x \in DOMAIN searches : x.username = u /\ NormalizedQuery(x.query) = q}}

\* C19: the observations of a subject and a normalized query text make one
\* canonical event per bucket that holds one of them, in the deduplicated
\* frame and in the analyzer: two of them are merged exactly when they are in
\* the same bucket.
C19_OneEventPerBucket ==
  \A r \in DOMAIN searches :
    LET u == r.username
        q == NormalizedQuery(r.query) IN
    /\ report.passes >= 1 =>
         Cardinality({i \in DOMAIN report.df :
                        /\ report.df[i].username = u
                        /\ NormalizedQuery(report.df[i].query) = q})
           = Cardinality(BucketsOf(u, q))
    /\ report.analyzed = "done" =>
         Cardinality({e \in report.events : e.username = u /\ e.norm_query = q})
           = Cardinality(BucketsOf(u, q))

\* The rows of a frame as a bag.
FrameBag(df) ==
  [r \in {df[i] : i \in DOMAIN df} |-> Cardinality({i \in DOMAIN df : df[i] = r})]

\* A row of a frame that no other row shares its user, query text and bucket with.
AloneInBucket(df, i) ==
  \A j \in DOMAIN df : j # i => DedupKey(AssignBucket(df[j])) # DedupKey(AssignBucket(df[i]))

\* C20: deduplicate_dataframe applied to a frame it has returned returns the
\* same rows; a frame of one row is returned as it is, and every row that is
\* alone in its bucket is returned.
C20_DedupIdempotent ==
  /\ report.passes >= 2 => FrameBag(report.df) = FrameBag(report.prev)
  /\ (report.passes >= 1 /\ Len(report.prev) = 1) => report.df = report.prev
  /\ report.passes >= 1 =>
       \A i \in DOMAIN report.prev :
         AloneInBucket(report.prev, i) => \E j \in DOMAIN report.df : report.df[j] = report.prev[i]

\* The deduplicator has dropped a row of the loaded frame and then has been
\* applied to its own result of two rows or more.
C20_Witness ==
  /\ report.passes = 2
  /\ Len(report.prev) >= 2
  /\ Len(report.prev) < Count(searches)

\* The rows the analyzer reads: those of its range.
AnalyzedRows == InRange(searches, now - AnalysisSeconds, now)

\* All raw observations of one canonical event, whatever the client.
ObservationsOf(e) ==
  {r \in DOMAIN AnalyzedRows : /\ r.username = e.username
                               /\ NormalizedQuery(r.query) = e.norm_query
                               /\ FloorBucket(r.timestamp) = e.time_bucket}

\* C21: for every canonical event observed by at least 2 collection points,
\* the spread time put into the latency histogram is last_seen - first_seen,
\* the maximum and the minimum arrival timestamp over all raw observations of
\* the event.
C21_SpreadIsLastMinusFirst ==
  report.analyzed = "done" =>
    \A e \in report.spreads :
      /\ e.spread_seconds = SetMax({r.timestamp : r \in ObservationsOf(e)})
                             - SetMin({r.timestamp : r \in ObservationsOf(e)})
      /\ e.time_spread = time_spread(SetMax({r.timestamp : r \in ObservationsOf(e)})
                                      - SetMin({r.timestamp : r \in ObservationsOf(e)}))

\* The rows of the half-open range [start, end).
HalfOpenRows ==
  RowsWhere(searches, {r \in DOMAIN searches :
                         r.timestamp >= now - AnalysisSeconds /\ r.timestamp < now})

\* C22: deduplication and convergence analysis over a requested range use
\* exactly the raw observations with start <= arrival timestamp < end; an
\* observation whose timestamp equals end is excluded.
C22_EndExcluded ==
  /\ report.loaded =>
        \A i \in DOMAIN report.df :
          /\ report.df[i].timestamp >= now - AnalysisSeconds
          /\ report.df[i].timestamp < now
  /\ report.loaded /\ report.passes = 0 => FrameBag(report.df) = HalfOpenRows
  /\ report.analyzed = "done" =>
        report.events = event_client_counts(search_events(HalfOpenRows))

\* The canonical events of the analyzed range: the distinct (user, normalised
\* query, bucket) keys of its raw observations.
CanonicalEvents ==
  {<<r.username, NormalizedQuery(r.query), FloorBucket(r.timestamp)>> :
     r \in DOMAIN AnalyzedRows}

\* The collection points that observed a canonical event.
PointsOf(k) ==
  {r.client_id : r \in {x \in DOMAIN AnalyzedRows :
     <<x.username, NormalizedQuery(x.query), FloorBucket(x.timestamp)>> = k}}

\* C23: with N >= 2 active collection points, every canonical event falls in
\* exactly one class k, 1 <= k <= N, of the distribution by number of
\* observing points, and the class counts sum to the number of canonical events.
C23_DistributionComplete ==
  report.analyzed = "done" =>
    /\ Cardinality(report.clients) >= 2
    /\ \A k \in CanonicalEvents :
          /\ Cardinality(PointsOf(k)) \in 1..Cardinality(report.clients)
          /\ Cardinality({row \in report.results :
                            row.client_count = Cardinality(PointsOf(k))}) = 1
    /\ \A row \in report.results :
          /\ row.client_count \in 1..Cardinality(report.clients)
          /\ row.event_count =
               Cardinality({k \in CanonicalEvents : Cardinality(PointsOf(k)) = row.client_count})
    /\ report.total_events = Cardinality(CanonicalEvents)

\* An analysis with events seen by one point and events seen by two.
C23_Witness ==
  /\ report.analyzed = "done"
  /\ {row.client_count : row \in report.results} = {1, 2}
  /\ report.total_events >= 2

\* The collection points active in the analyzed range.
ActivePoints == {r.client_id : r \in DOMAIN AnalyzedRows}

\* Point A observes one event, point B that event and one more, and no other
\* point is active.
OneSharedOneAlone ==
  \E A, B \in ActivePoints :
    /\ ActivePoints = {A, B} /\ A # B
    /\ Cardinality(client_events(AnalyzedRows, A)) = 1
    /\ Cardinality(client_events(AnalyzedRows, B)) = 2
    /\ client_events(AnalyzedRows, A) \subseteq client_events(AnalyzedRows, B)

\* C24: the full-convergence rate is the number of canonical events observed
\* by all N active collection points divided by the number of canonical
\* events; when point A observes one event and point B that event and another,
\* the analyzer reports 1 event seen by 2 points, 1 event seen by 1 point and
\* a rate of 50%.
C24_FullConvergenceRate ==
  report.analyzed = "done" =>
    /\ report.full_convergence =
         Cardinality({k \in CanonicalEvents : PointsOf(k) = ActivePoints})
    /\ report.convergence_rate[2] > 0
    /\ report.convergence_rate[1] * Cardinality(CanonicalEvents) =
         100 * Cardinality({k \in CanonicalEvents : PointsOf(k) = ActivePoints})
           * report.convergence_rate[2]
    /\ OneSharedOneAlone =>
         /\ report.results = {[client_count |-> 2, event_count |-> 1],
                              [client_count |-> 1, event_count |-> 1]}
         /\ report.convergence_rate[1] = 50 * report.convergence_rate[2]

\* The analysis of such observations of two points has been made.
C24_Witness ==
  /\ report.analyzed = "done"
  /\ OneSharedOneAlone
  /\ report.full_convergence = 1

C26_InsufficientDataReadOnly ==
  [][report.analyzed = "no" /\ report'.analyzed # "no" =>
       /\ searches' = searches /\ archives' = archives /\ stats' = stats
       /\ files' = files
       /\ Cardinality(ActivePoints) < 2 =>
            /\ report'.analyzed = "insufficient"
            /\ report'.events = {} /\ report'.results = {}
            /\ report'.total_events = 0 /\ report'.full_convergence = 0
            /\ report'.spreads = {} /\ report'.overlaps = {}
       /\ Cardinality(ActivePoints) >= 2 => report'.analyzed = "done"]_vars

\* The analyzer has returned early on a store with rows of one point only.
C26_Witness ==
  /\ report.analyzed = "insufficient"
  /\ Cardinality(ActivePoints) = 1
  /\ BagCardinality(searches) >= 2

\* The archive file that a run writes for its month.
FileOf(r) == files[<<IF r.impl = "script" THEN "parquet" ELSE "csv", r.month>>]

\* C27: purge loses no data: every raw row that an archival run deletes from
\* the live store is contained in the archive file that the run has written
\* for the period, whatever rows ingestion has appended to the period between
\* the run's count, export and delete steps.
C27_PurgeLosesNoData ==
  [][\A j \in Jobs :
       job[j].pc \in {"delete", "cdelete"} /\ searches' # searches =>
         MonthRows(searches, job[j].month) \sqsubseteq FileOf(job[j]).rows]_vars

\* C28: each period's raw rows are added to the cumulative statistics at most
\* once over any sequence of archival runs, runs that abort after a committed
\* step and are retried included: total_searches never exceeds the number of
\* raw rows ever ingested for the merged periods, which is at most the number
\* of raw rows ever ingested.
C28_MergedAtMostOnce ==
  /\ stats.total_searches <= hist.ingested
  /\ hist.merged = {} => stats.total_searches = 0

\* How often a sequence holds a search.
Occurrences(q, n) == Cardinality({i \in DOMAIN q : q[i] = n})

\* How often the batches of the flushes in progress hold a search.
InFlight(n) == Cardinality({f \in collector.flushing : Occurrences(f.batch, n) > 0})

ExactlyOnePlace(c) ==
  \A n \in 1..c.received :
    /\ Occurrences(c._search_queue, n) + Occurrences(c.saved, n)
         + Cardinality({f \in c.flushing : Occurrences(f.batch, n) > 0}) = 1
    /\ \A f \in c.flushing : Occurrences(f.batch, n) <= 1

C30_StoppedMeansSaved ==
  collector.pc = "stopped" =>
    /\ collector._search_queue = <<>>
    /\ \A n \in 1..collector.received : Occurrences(collector.saved, n) = 1
    /\ BagCardinality(searches) = collector.received

====
